---------------------------- MODULE Spec2Model ----------------------------
(***************************************************************************)
(* The SSE relay of serverCamp: a job handler posts a trigger to the       *)
(* remote workflow engine, pollWorkflow polls the returned executionUrl    *)
(* and every transition is written to the job's event stream.              *)
(*                                                                         *)
(* One behaviour is one job request.  An action is one synchronous segment *)
(* of the handler: the code between two awaits (axios.post, axios.get,     *)
(* setTimeout), which Node runs to completion.                             *)
(***************************************************************************)
EXTENDS Integers, Sequences, FiniteSets

VARIABLES
  route,              \* which handler serves the request
  pc,                 \* where the handler is suspended
  response,           \* response.data of the trigger POST
  data,               \* pollWorkflow: the StatusDocument held
  pollCount,          \* pollWorkflow: attempt counter
  consecutiveErrors,  \* pollWorkflow: consecutive-failure counter
  workflowFailed,     \* pollWorkflow: sticky workflow-error flag
  pollState,          \* pollWorkflow: "none", "running", "returned", "threw"
  waitTime,           \* delay of the pending setTimeout, in ms
  fullUrl,            \* target of the last status GET
  gets,               \* number of status GETs issued
  posts,              \* number of trigger POSTs issued
  ended,              \* number of res.end() calls
  out,                \* the events written by the last segment, in order
  sent,               \* per event type, how many were written (2 = two or more)
  traced,             \* whether the answers and the stream of the job are kept
  served,             \* traced jobs: the answers of the remote engine so far
  stream,             \* traced jobs: the types of all events written so far
  fnArgs,             \* arguments of the last direct call of a pure helper
  fnRet,              \* its result
  connected,          \* whether the client still holds the job's stream open
  getsAfterClose,     \* status GETs issued since the client went away
  jobs,               \* two concurrent jobs: the state of each pollWorkflow call
  serverStatus,       \* pollWorkflow: the HTTP status of the response of this cycle, 0 if none
  stats,              \* stats.activeConnections and the keys of stats.connectionStartTimes
  requests            \* the requests of the server: "none", "open", "aged5", "aged10", "ended"
                      \* and the answers the remote engine gave to each

vars == <<route, pc, response, data, pollCount, consecutiveErrors, workflowFailed,
          pollState, waitTime, fullUrl, gets, posts, ended, out, sent, traced,
          served, stream, fnArgs, fnRet, connected, getsAfterClose, jobs, serverStatus,
          stats, requests>>

(***************************************************************************)
(* Program constants                                                       *)
(***************************************************************************)
maxPolls == 1000
maxConsecutiveErrors == 10
errorWaitTime == 15000

\* 'https://n8n.srv903010.hstgr.cloud/' as its '/'-separated pieces; the
\* trailing '/' is the separator before whatever is appended.
N8N_WEBHOOK_URL == <<"https:", "", "n8n.srv903010.hstgr.cloud">>

(***************************************************************************)
(* Bounds of the model                                                     *)
(***************************************************************************)
MaxServed == 2      \* a traced job: status GETs the remote engine answers
MaxEarly == 11      \* a job followed from its request: attempts whose GET is answered
MaxLate == 12       \* a job followed from its late attempts: attempts left before the ceiling
MaxN == 125         \* direct calls of getPollingInterval: largest attempt count
MaxAfterClose == 2  \* status GETs counted after the client went away
MaxPairServed == 2  \* two concurrent jobs: status GETs answered per job
MaxRest == 2        \* direct calls of analyzeN8NResponse: fields besides finished, executionUrl, data
MaxSegments == 3    \* direct evaluations of the polled URL: path segments of a locator
MaxRequests == 3    \* connection statistics: requests the server receives

(***************************************************************************)
(* Documents.  A decoded body is an object, a string (a body that is not   *)
(* JSON) or null.  Of an object the model keeps finished, executionUrl     *)
(* (its pieces between '/'; <<>> when absent), data and, as `rest', the    *)
(* text of every other field.                                              *)
(***************************************************************************)
Undefined == "undefined"
NoUrl == <<>>
Url1 == <<"https:", "", "n8n.srv903010.hstgr.cloud", "webhook-waiting", "42">>

Doc(f, u, d, r) == [body |-> "object", finished |-> f, executionUrl |-> u, data |-> d, rest |-> r]
NullBody == [body |-> "null", finished |-> FALSE, executionUrl |-> NoUrl, data |-> Undefined, rest |-> <<>>]
StringBody == [body |-> "string", finished |-> FALSE, executionUrl |-> NoUrl, data |-> Undefined, rest |-> <<"not json">>]
NoDoc == [body |-> "none", finished |-> FALSE, executionUrl |-> NoUrl, data |-> Undefined, rest |-> <<>>]

Payloads == {"d1", "d2"}
Rests == {<<>>, <<"Exit Code: 1">>, <<"request timed out">>}

StatusDocs == {Doc(f, u, d, r) : f \in BOOLEAN, u \in {NoUrl, Url1}, d \in Payloads, r \in Rests}
StatusBodies == StatusDocs \cup {NullBody, StringBody}

TriggerDocs == {Doc(f, u, d, <<>>) : f \in BOOLEAN, u \in {NoUrl, Url1}, d \in {"d1"}}
TriggerBodies == TriggerDocs \cup {NullBody}

\* a transport error of axios.get, as an entry of `served'
TransportError == [body |-> "transport error", finished |-> FALSE, executionUrl |-> NoUrl,
                   data |-> Undefined, rest |-> <<>>]

(***************************************************************************)
(* Text.  A serialized document is the sequence of the texts of its        *)
(* fields; a text contains a marker when one of its pieces, lower-cased,   *)
(* is the marker or has it inside.                                         *)
(***************************************************************************)
toLowerCase(t) ==
  CASE t = "Exit Code: 1" -> "exit code: 1"
    [] t = "EXIT CODE: 1" -> "exit code: 1"
    [] t = "Process finished with an error" -> "process finished with an error"
    [] t = "request timed out" -> "request timed out"
    [] t = "Timeout" -> "timeout"
    [] OTHER -> t

\* the markers a lower-cased piece of text has inside
Inside(t) ==
  CASE t = "exit code: 1" -> {"exit code: 1"}
    [] t = "process finished with an error" -> {"process finished with an error"}
    [] t = "request timed out" -> {"timed out"}
    [] t = "timeout" -> {"timeout"}
    [] OTHER -> {}

JSON_stringify(d) ==
  d.executionUrl \o <<IF d.finished THEN "true" ELSE "false">> \o <<d.data>> \o d.rest

\* mutant: only the head of the text is searched
includesHead(str, marker) == str # <<>> /\ marker \in Inside(toLowerCase(str[1]))

includes(str, marker) == \E i \in 1..Len(str) : marker \in Inside(toLowerCase(str[i]))

NoError == [isError |-> FALSE, errorType |-> "null", severity |-> "null"]

\* mutant: whatever the body is, its text is searched
analyzeAnyBody(d) ==
  LET dataStr == JSON_stringify(d) IN
    IF includes(dataStr, "exit code: 1")
      THEN [isError |-> TRUE, errorType |-> "workflow_error", severity |-> "critical"]
    ELSE IF includes(dataStr, "process finished with an error")
      THEN [isError |-> TRUE, errorType |-> "process_error", severity |-> "critical"]
    ELSE IF includes(dataStr, "timeout") \/ includes(dataStr, "timed out")
      THEN [isError |-> TRUE, errorType |-> "n8n_timeout", severity |-> "warning"]
    ELSE NoError

\* mutant: a timeout marker is reported as a warning that is no error
analyzeTimeoutNoError(d) ==
  IF d.body # "object" THEN NoError
  ELSE LET dataStr == JSON_stringify(d) IN
    IF includes(dataStr, "exit code: 1")
      THEN [isError |-> TRUE, errorType |-> "workflow_error", severity |-> "critical"]
    ELSE IF includes(dataStr, "process finished with an error")
      THEN [isError |-> TRUE, errorType |-> "process_error", severity |-> "critical"]
    ELSE IF includes(dataStr, "timeout") \/ includes(dataStr, "timed out")
      THEN [isError |-> FALSE, errorType |-> "n8n_timeout", severity |-> "warning"]
    ELSE NoError

analyzeN8NResponse(d) ==
  IF d.body # "object" THEN NoError
  ELSE LET dataStr == JSON_stringify(d) IN
    IF includes(dataStr, "exit code: 1")
      THEN [isError |-> TRUE, errorType |-> "workflow_error", severity |-> "critical"]
    ELSE IF includes(dataStr, "process finished with an error")
      THEN [isError |-> TRUE, errorType |-> "process_error", severity |-> "critical"]
    ELSE IF includes(dataStr, "timeout") \/ includes(dataStr, "timed out")
      THEN [isError |-> TRUE, errorType |-> "n8n_timeout", severity |-> "warning"]
    ELSE NoError

\* mutant: the last step of the schedule returns 2 s
getPollingIntervalShortLast(n, hasError) ==
  IF hasError THEN 15000
  ELSE IF n < 5 THEN 3000
  ELSE IF n < 20 THEN 5000
  ELSE IF n < 60 THEN 10000
  ELSE IF n < 120 THEN 15000
  ELSE 2000

getPollingInterval(n, hasError) ==
  IF hasError THEN 15000
  ELSE IF n < 5 THEN 3000
  ELSE IF n < 20 THEN 5000
  ELSE IF n < 60 THEN 10000
  ELSE IF n < 120 THEN 15000
  ELSE 20000

(***************************************************************************)
(* pollWorkflow: the expressions of its loop                               *)
(***************************************************************************)
\* mutant: the loop does not test finished
whileConditionIgnoresFinished(d, n) == d.executionUrl # NoUrl /\ n < maxPolls

\* mutant: the loop goes on without a locator
whileConditionIgnoresUrl(d, n) == ~d.finished /\ n < maxPolls

\* mutant: the loop admits one attempt more
whileConditionOneMore(d, n) == d.executionUrl # NoUrl /\ ~d.finished /\ n <= maxPolls

\* mutant: the loop stops on a document classified as an error
whileConditionStopsOnError(d, n) ==
  d.executionUrl # NoUrl /\ ~d.finished /\ n < maxPolls /\ ~analyzeN8NResponse(d).isError

\* data.executionUrl && !data.finished && pollCount < config.maxPolls
whileCondition(d, n) == d.executionUrl # NoUrl /\ ~d.finished /\ n < maxPolls

\* data.executionUrl.split('/').slice(3).join('/')
path(u) == SubSeq(u, 4, Len(u))

\* `${N8N_WEBHOOK_URL}${path}`
pollUrl(u) == N8N_WEBHOOK_URL \o (IF path(u) = <<>> THEN <<"">> ELSE path(u))

\* mutant: the attempt counter advances by two
nextPollCountSkips(n) == n + 2

\* pollCount++ at the entry of a cycle
nextPollCount(n) == n + 1

\* mutant: the flag follows the latest classification
flagAfterLatest(wf, isError) == isError

\* the sticky flag after a classification
flagAfter(wf, isError) == IF isError THEN TRUE ELSE wf

\* mutant: the counter is not reset
afterSuccessKeeps(ce) == ce

\* mutant: a failed fetch is not counted
afterErrorKeeps(ce) == ce

\* consecutiveErrors = 0 after axios.get resolved; consecutiveErrors++ in the catch block
afterSuccess(ce) == 0
afterError(ce) == ce + 1

\* workflowStatus of the update event
workflowStatus(wf, d) ==
  IF wf THEN "error-but-continuing" ELSE IF d.finished THEN "completed" ELSE "running"

\* finalStatus of the workflow_completed event
completedStatus(wf) == IF wf THEN "completed-with-errors" ELSE "completed-successfully"

\* endReason and finalStatus on exit
endReason(d, n, ce, wf) ==
  IF d.finished /\ ~wf THEN [reason |-> "completed", finalStatus |-> "success"]
  ELSE IF d.finished /\ wf THEN [reason |-> "completed_with_errors", finalStatus |-> "partial_success"]
  ELSE IF n >= maxPolls THEN [reason |-> "max_polls_reached", finalStatus |-> "max_attempts"]
  ELSE IF ce >= maxConsecutiveErrors
    THEN [reason |-> "too_many_network_errors", finalStatus |-> "network_failure"]
  ELSE [reason |-> "interrupted", finalStatus |-> "interrupted"]

\* the value pollWorkflow returns: { ...data, _meta }
NoMeta == [present |-> FALSE, success |-> FALSE, failed |-> FALSE, reason |-> "undefined", totalPolls |-> 0]
\* mutant: _meta.success requires a run without workflow error
returnValueCleanSuccess(d, n, ce, wf) ==
  [body |-> "object", finished |-> d.finished, executionUrl |-> d.executionUrl,
   data |-> d.data, rest |-> d.rest,
   meta |-> [present |-> TRUE, success |-> d.finished /\ ~wf, failed |-> wf,
             reason |-> endReason(d, n, ce, wf).reason, totalPolls |-> n]]

returnValue(d, n, ce, wf) ==
  [body |-> "object", finished |-> d.finished, executionUrl |-> d.executionUrl,
   data |-> d.data, rest |-> d.rest,
   meta |-> [present |-> TRUE, success |-> d.finished, failed |-> wf,
             reason |-> endReason(d, n, ce, wf).reason, totalPolls |-> n]]

\* the handler's data when pollWorkflow was not called
unpolled(d) ==
  [body |-> d.body, finished |-> d.finished, executionUrl |-> d.executionUrl,
   data |-> d.data, rest |-> d.rest, meta |-> NoMeta]

(***************************************************************************)
(* Events: the type and the payload fields the handlers compute            *)
(***************************************************************************)
EvStart == [type |-> "start"]
EvProgress(d) == [type |-> "progress", data |-> d]
EvStep(n, ce, wf, url) ==
  [type |-> "step", pollCount |-> n, executionUrl |-> url, consecutiveErrors |-> ce,
   status |-> IF wf THEN "post-error" ELSE "normal"]
EvTooManyErrors(n, ce) == [type |-> "too_many_errors", pollCount |-> n, consecutiveErrors |-> ce]
EvErrorDetected(a, n, d) ==
  [type |-> "n8n_error_detected", errorType |-> a.errorType, severity |-> a.severity,
   pollCount |-> n, data |-> d, willContinue |-> TRUE]
EvErrorPersisting(a, n, d) ==
  [type |-> "error_persisting", errorType |-> a.errorType, pollCount |-> n, data |-> d]
\* mutant: nextPollIn is computed from the sticky flag
EvUpdateStickyInterval(d, n, a, wf, s) ==
  [type |-> "update", donnee |-> d.data, pollCount |-> n,
   nextPollIn |-> getPollingInterval(n, wf) \div 1000, serverStatus |-> s,
   hasError |-> a.isError, workflowStatus |-> workflowStatus(wf, d), workflowFailed |-> wf]
EvUpdate(d, n, a, wf, s) ==
  [type |-> "update", donnee |-> d.data, pollCount |-> n,
   nextPollIn |-> getPollingInterval(n, a.isError) \div 1000, serverStatus |-> s,
   hasError |-> a.isError, workflowStatus |-> workflowStatus(wf, d), workflowFailed |-> wf]
EvWorkflowCompleted(d, n, wf) ==
  [type |-> "workflow_completed", totalPolls |-> n, finalStatus |-> completedStatus(wf),
   hadErrors |-> wf, finalData |-> d]
EvPollingError(n, ce) ==
  [type |-> "polling_error", pollCount |-> n, consecutiveErrors |-> ce,
   maxErrorsAllowed |-> maxConsecutiveErrors, willRetry |-> ce < maxConsecutiveErrors]
EvPollingEnded(d, n, ce, wf) ==
  [type |-> "polling_ended", totalPolls |-> n, finished |-> d.finished, workflowFailed |-> wf,
   reason |-> endReason(d, n, ce, wf).reason, consecutiveErrors |-> ce,
   success |-> d.finished, finalData |-> d, finalStatus |-> endReason(d, n, ce, wf).finalStatus]
EvCompleted(r) == [type |-> "completed", result |-> r]
EvCompletedWithErrors(r) ==
  [type |-> "completed_with_errors", result |-> r, hadErrors |-> TRUE, reason |-> r.meta.reason]
EvInterrupted(r) == [type |-> "interrupted", result |-> r, reason |-> r.meta.reason]
EvError == [type |-> "error"]

\* mutant: every document classified as an error is reported as a first one
errorEventsAlwaysDetected(wf, a, n, d) ==
  IF ~a.isError THEN <<>> ELSE <<EvErrorDetected(a, n, d)>>

\* the events of the error handling of one successful fetch
errorEvents(wf, a, n, d) ==
  IF ~a.isError THEN <<>>
  ELSE IF ~wf THEN <<EvErrorDetected(a, n, d)>>
  ELSE <<EvErrorPersisting(a, n, d)>>

\* mutant: the update event is written before the error handling
successEventsUpdateFirst(err, upd) == upd \o err

\* the events of one successful fetch: error handling, then the update
successEvents(err, upd) == err \o upd

\* mutant: no summary once workflow_completed was written
exitEventsUnlessFinished(d, n, ce, wf) ==
  IF d.finished THEN <<>> ELSE <<EvPollingEnded(d, n, ce, wf)>>

\* the polling_ended event written on exit
exitEvents(d, n, ce, wf) == <<EvPollingEnded(d, n, ce, wf)>>

Counted == {"n8n_error_detected", "too_many_errors", "workflow_completed", "polling_ended",
            "completed", "completed_with_errors", "interrupted", "error"}

Types(evs) == [i \in 1..Len(evs) |-> evs[i].type]
Count(evs, t) == Cardinality({i \in 1..Len(evs) : evs[i].type = t})
Min(a, b) == IF a < b THEN a ELSE b

\* sendEvent, for the events of one segment
sendEvents(evs) ==
  /\ out' = evs
  /\ sent' = [t \in Counted |-> Min(2, sent[t] + Count(evs, t))]
  /\ stream' = IF traced THEN stream \o Types(evs) ELSE stream

(***************************************************************************)
(* The job handlers                                                        *)
(***************************************************************************)
Routes == {"/webhook/enrichir/contacte", "/webhook/generer/messages"}

\* mutant: the handler calls pollWorkflow whatever the trigger response
needsPollingAlways(b) == TRUE

\* if (data.executionUrl): the handler calls pollWorkflow
needsPolling(b) == b.executionUrl # NoUrl

\* mutant: the handler does not read _meta.failed
finalEventIgnoresFailed(rt, r) ==
  IF rt = "/webhook/enrichir/contacte"
  THEN LET success == (r.meta.present /\ r.meta.success) \/ r.finished
       IN IF success THEN EvCompleted(r) ELSE EvInterrupted(r)
  ELSE EvCompleted(r)

\* the event a handler writes before res.end()
finalEvent(rt, r) ==
  IF rt = "/webhook/enrichir/contacte"
  THEN LET success == (r.meta.present /\ r.meta.success) \/ r.finished
           failed == r.meta.present /\ r.meta.failed
       IN IF success /\ ~failed THEN EvCompleted(r)
          ELSE IF success /\ failed THEN EvCompletedWithErrors(r)
          ELSE EvInterrupted(r)
  ELSE EvCompleted(r)

\* mutant: the handler leaves the stream open after its last event
finishWithoutEnd(pre, r, state) ==
  /\ sendEvents(pre \o <<finalEvent(route, r)>>)
  /\ ended' = ended
  /\ pollState' = state
  /\ pc' = "done"
  /\ waitTime' = 0

\* res.end() after the handler's last event; `r' is the handler's data
finish(pre, r, state) ==
  /\ sendEvents(pre \o <<finalEvent(route, r)>>)
  /\ ended' = ended + 1
  /\ pollState' = state
  /\ pc' = "done"
  /\ waitTime' = 0

\* mutant: the catch block leaves the stream open
failWithoutEnd(pre, state) ==
  /\ sendEvents(pre \o <<EvError>>)
  /\ ended' = ended
  /\ pollState' = state
  /\ pc' = "done"
  /\ waitTime' = 0

\* the catch block of the handler: an error event, then res.end()
fail(pre, state) ==
  /\ sendEvents(pre \o <<EvError>>)
  /\ ended' = ended + 1
  /\ pollState' = state
  /\ pc' = "done"
  /\ waitTime' = 0

(***************************************************************************)
(* pollWorkflow from the test of its while loop to its next await, or to   *)
(* its return and the rest of the handler.  `pre' are the events already   *)
(* written by the segment; d, n, ce, wf are data, pollCount,               *)
(* consecutiveErrors and workflowFailed as the segment has left them.      *)
(***************************************************************************)
resume(pre, d, n, ce, wf) ==
  /\ data' = d
  /\ consecutiveErrors' = ce
  /\ workflowFailed' = wf
  /\ IF whileCondition(d, n)
     THEN /\ pollCount' = nextPollCount(n)
          /\ IF ce >= maxConsecutiveErrors
             THEN \* too_many_errors, break
                  /\ finish(pre \o <<EvTooManyErrors(nextPollCount(n), ce)>> \o exitEvents(d, nextPollCount(n), ce, wf),
                            returnValue(d, nextPollCount(n), ce, wf), "returned")
                  /\ UNCHANGED <<fullUrl, gets>>
             ELSE \* step, then await axios.get(fullUrl)
                  /\ sendEvents(pre \o <<EvStep(nextPollCount(n), ce, wf, pollUrl(d.executionUrl))>>)
                  /\ fullUrl' = pollUrl(d.executionUrl)
                  /\ gets' = gets + 1
                  /\ pollState' = "running"
                  /\ pc' = "get"
                  /\ waitTime' = 0
                  /\ UNCHANGED ended
     ELSE /\ pollCount' = n
          /\ finish(pre \o exitEvents(d, n, ce, wf), returnValue(d, n, ce, wf), "returned")
          /\ UNCHANGED <<fullUrl, gets>>

\* the status GETs issued once the client has gone, counted up to
\* MaxAfterClose + 1
afterClose ==
  getsAfterClose' = IF ~connected /\ gets' # gets
                    THEN Min(MaxAfterClose + 1, getsAfterClose + 1)
                    ELSE getsAfterClose

\* the handler starts: the start event, then await axios.post
Start ==
  /\ pc = "start"
  /\ sendEvents(<<EvStart>>)
  /\ posts' = posts + 1
  /\ pc' = "post"
  /\ UNCHANGED <<route, response, data, pollCount, consecutiveErrors, workflowFailed,
                 pollState, waitTime, fullUrl, gets, ended, traced, served, fnArgs, fnRet,
                 connected, getsAfterClose, jobs, serverStatus>>
  /\ UNCHANGED <<stats, requests>>

\* axios.post rejects
PostFail ==
  /\ pc = "post"
  /\ fail(<<>>, "none")
  /\ UNCHANGED <<route, response, data, pollCount, consecutiveErrors, workflowFailed,
                 fullUrl, gets, posts, traced, served, fnArgs, fnRet, connected, getsAfterClose, jobs, serverStatus>>
  /\ UNCHANGED <<stats, requests>>

\* axios.post resolves with body b
PostReturn(b) ==
  /\ pc = "post"
  /\ response' = b
  /\ IF b.body = "null"
     THEN \* data.executionUrl of null throws into the handler's catch
          /\ fail(<<EvProgress(b)>>, "none")
          /\ UNCHANGED <<data, pollCount, consecutiveErrors, workflowFailed, fullUrl, gets>>
     ELSE IF needsPolling(b)
     THEN \* pollWorkflow(data.executionUrl, ...)
          resume(<<EvProgress(b)>>, Doc(FALSE, b.executionUrl, Undefined, <<>>), 0, 0, FALSE)
     ELSE /\ finish(<<EvProgress(b)>>, unpolled(b), "none")
          /\ UNCHANGED <<data, pollCount, consecutiveErrors, workflowFailed, fullUrl, gets>>
  /\ afterClose
  /\ UNCHANGED <<route, posts, traced, served, fnArgs, fnRet, connected, jobs, serverStatus>>
  /\ UNCHANGED <<stats, requests>>

\* the status GETs the remote engine answers; any other stays pending
Answers ==
  IF traced THEN Len(served) < MaxServed
  ELSE pollCount <= MaxEarly \/ pollCount > maxPolls - MaxLate
Serve(x) == served' = IF traced THEN Append(served, x) ELSE served

\* the HTTP status codes the remote engine answers with
Statuses == {200, 500}

\* the bodies the remote engine sends with a status other than 200
ErrorStatusBodies ==
  {NullBody, StringBody, Doc(FALSE, Url1, "d1", <<>>), Doc(TRUE, Url1, "d1", <<>>)}

\* axiosConfig.validateStatus
validateStatus(status) == status < 600

\* axios.get resolves with body b of a response of HTTP status s
GetReturn(b, s) ==
  /\ pc = "get"
  /\ Answers
  /\ validateStatus(s)
  /\ serverStatus' = s
  /\ Serve(b)
  /\ IF b.body = "null"
     THEN \* data.finished of null throws; the catch block counts the error
          \* and throws on data.executionUrl: pollWorkflow rejects
          /\ data' = b
          /\ consecutiveErrors' = afterError(afterSuccess(consecutiveErrors))
          /\ fail(<<>>, "threw")
          /\ UNCHANGED <<pollCount, workflowFailed, fullUrl, gets>>
     ELSE LET a == analyzeN8NResponse(b)
              wf == flagAfter(workflowFailed, a.isError)
              err == errorEvents(workflowFailed, a, pollCount, b)
              upd == <<EvUpdate(b, pollCount, a, wf, s)>>
          IN IF ~b.finished
             THEN \* await setTimeout(waitTime)
                  /\ sendEvents(successEvents(err, upd))
                  /\ data' = b
                  /\ consecutiveErrors' = afterSuccess(consecutiveErrors)
                  /\ workflowFailed' = wf
                  /\ waitTime' = getPollingInterval(pollCount, a.isError)
                  /\ pc' = "wait"
                  /\ UNCHANGED <<pollCount, pollState, fullUrl, gets, ended>>
             ELSE resume(successEvents(err, upd) \o <<EvWorkflowCompleted(b, pollCount, wf)>>,
                         b, pollCount, afterSuccess(consecutiveErrors), wf)
  /\ afterClose
  /\ UNCHANGED <<route, response, posts, traced, fnArgs, fnRet, connected, jobs>>
  /\ UNCHANGED <<stats, requests>>

\* axios.get rejects: no response (s = 0), or a response of a status that
\* validateStatus refuses
GetFail(s) ==
  /\ pc = "get"
  /\ Answers
  /\ s = 0 \/ ~validateStatus(s)
  /\ serverStatus' = s
  /\ Serve(TransportError)
  /\ consecutiveErrors' = afterError(consecutiveErrors)
  /\ sendEvents(<<EvPollingError(pollCount, afterError(consecutiveErrors))>>)
  /\ waitTime' = errorWaitTime
  /\ pc' = "wait"
  /\ UNCHANGED <<route, response, data, pollCount, workflowFailed, pollState, fullUrl,
                 gets, posts, ended, traced, fnArgs, fnRet, connected, getsAfterClose, jobs>>
  /\ UNCHANGED <<stats, requests>>

\* the client closes the connection of the job's stream.  No listener is
\* registered for it and sendEvent does not look at the result of res.write:
\* nothing of the handler changes.
Disconnect ==
  /\ connected
  /\ pc \in {"post", "get", "wait"}
  /\ connected' = FALSE
  /\ UNCHANGED <<route, pc, response, data, pollCount, consecutiveErrors, workflowFailed,
                 pollState, waitTime, fullUrl, gets, posts, ended, out, sent, traced,
                 served, stream, fnArgs, fnRet, getsAfterClose, jobs, serverStatus>>
  /\ UNCHANGED <<stats, requests>>

\* the timer of the inter-poll wait fires
WaitDone ==
  /\ pc = "wait"
  /\ resume(<<>>, data, pollCount, consecutiveErrors, workflowFailed)
  /\ afterClose
  /\ serverStatus' = 0
  /\ UNCHANGED <<route, response, posts, traced, served, fnArgs, fnRet, connected, jobs>>
  /\ UNCHANGED <<stats, requests>>

(***************************************************************************)
(* Two jobs at once.  Each call of pollWorkflow has its own data,          *)
(* pollCount, consecutiveErrors and workflowFailed, and each handler its   *)
(* own sendEvent; Node runs the synchronous segments of the two calls one  *)
(* at a time, in any order.  jobs.state[j] is the call of job j, with the  *)
(* types of the events written to its stream; jobs.asked[j] are the        *)
(* answers the remote engine gave to the status GETs of job j.             *)
(***************************************************************************)
NoJobs == [state |-> <<>>, asked |-> <<>>]
Jobs == {1, 2}
PairRoute == "/webhook/enrichir/contacte"
PairBodies == {Doc(FALSE, Url1, "d1", <<>>), Doc(FALSE, Url1, "d1", <<"Exit Code: 1">>),
               Doc(TRUE, Url1, "d2", <<>>), TransportError}

\* mutant: the two calls share the variables of the first
ownShared(j) == 1

\* the variables a call of pollWorkflow works on: its own
own(j) == j

\* the events of the exit of pollWorkflow and of the end of the handler
exitTypes(d, n, ce, wf) ==
  Types(exitEvents(d, n, ce, wf)) \o <<finalEvent(PairRoute, returnValue(d, n, ce, wf)).type>>

\* the head of the loop: the next cycle up to its GET, or the exit
enter(st) ==
  IF whileCondition(st.data, st.pollCount)
  THEN IF st.consecutiveErrors >= maxConsecutiveErrors
       THEN [st EXCEPT !.pollCount = nextPollCount(@), !.pc = "done",
                       !.stream = @ \o <<"too_many_errors">> \o
                         exitTypes(st.data, nextPollCount(st.pollCount),
                                   st.consecutiveErrors, st.workflowFailed)]
       ELSE [st EXCEPT !.pollCount = nextPollCount(@), !.pc = "get",
                       !.stream = @ \o <<"step">>]
  ELSE [st EXCEPT !.pc = "done",
                  !.stream = @ \o exitTypes(st.data, st.pollCount, st.consecutiveErrors,
                                            st.workflowFailed)]

\* the segment after the status GET: x is the body, or TransportError
answer(st, x) ==
  IF x = TransportError
  THEN [st EXCEPT !.consecutiveErrors = afterError(@), !.pc = "wait",
                  !.stream = @ \o <<"polling_error">>]
  ELSE LET a == analyzeN8NResponse(x)
           wf == flagAfter(st.workflowFailed, a.isError)
           evs == Types(errorEvents(st.workflowFailed, a, st.pollCount, x)) \o <<"update">>
           got == [st EXCEPT !.data = x, !.consecutiveErrors = afterSuccess(@),
                             !.workflowFailed = wf]
       IN IF ~x.finished
          THEN [got EXCEPT !.pc = "wait", !.stream = @ \o evs]
          ELSE enter([got EXCEPT !.stream = @ \o evs \o <<"workflow_completed">>])

\* pollWorkflow called on the trigger response, up to its first GET
called ==
  enter([pc |-> "post", data |-> Doc(FALSE, Url1, Undefined, <<>>), pollCount |-> 0,
         consecutiveErrors |-> 0, workflowFailed |-> FALSE,
         stream |-> <<"start", "progress">>])

\* the status GET of job j resolves with x, or rejects
PairAnswer(j, x) ==
  /\ jobs.state[own(j)].pc = "get"
  /\ Len(jobs.asked[j]) < MaxPairServed
  /\ jobs' = [state |-> [jobs.state EXCEPT ![own(j)] = answer(@, x)],
              asked |-> [jobs.asked EXCEPT ![j] = Append(@, x)]]
  /\ UNCHANGED <<route, pc, response, data, pollCount, consecutiveErrors, workflowFailed,
                 pollState, waitTime, fullUrl, gets, posts, ended, out, sent, traced,
                 served, stream, fnArgs, fnRet, connected, getsAfterClose, serverStatus>>
  /\ UNCHANGED <<stats, requests>>

\* the timer of the wait of job j fires
PairWaitDone(j) ==
  /\ jobs.state[own(j)].pc = "wait"
  /\ jobs' = [jobs EXCEPT !.state[own(j)] = enter(@)]
  /\ UNCHANGED <<route, pc, response, data, pollCount, consecutiveErrors, workflowFailed,
                 pollState, waitTime, fullUrl, gets, posts, ended, out, sent, traced,
                 served, stream, fnArgs, fnRet, connected, getsAfterClose, serverStatus>>
  /\ UNCHANGED <<stats, requests>>

(***************************************************************************)
(* webhook_server.js.  Its pollWorkflow has no ceiling and no error        *)
(* classification: it polls while the document has a locator and is not    *)
(* finished, and leaves the loop on the first exception.  GET /workflow    *)
(* calls it whatever the trigger response; the POST handlers call it when  *)
(* the trigger response has a locator.  The job is traced: `served' are    *)
(* the answers to its status GETs, `stream' the types of its events.       *)
(***************************************************************************)
WebhookRoutes == {"/workflow", "/webhook/generer/messages"}
WebhookBodies ==
  {Doc(f, u, d, <<>>) : f \in BOOLEAN, u \in {NoUrl, Url1}, d \in Payloads}
    \cup {NullBody, StringBody}

EvWebhookStep(url) == [type |-> "step", executionUrl |-> url]
EvWebhookUpdate(d) == [type |-> "update", data |-> d]

\* the handler after pollWorkflow: the completed event, then res.end()
webhookCompleted(pre, r) ==
  /\ sendEvents(pre \o <<EvCompleted(r)>>)
  /\ ended' = ended + 1
  /\ pc' = "done"
  /\ UNCHANGED <<fullUrl, gets>>

\* the catch block of the handler: the error event, then res.end()
webhookFailed(pre) ==
  /\ sendEvents(pre \o <<EvError>>)
  /\ ended' = ended + 1
  /\ pc' = "done"
  /\ UNCHANGED <<fullUrl, gets>>

\* pollWorkflow from the test of its while loop, holding document d, to its
\* next await or to its return and the rest of the handler
webhookLoop(pre, d) ==
  IF d.executionUrl # NoUrl /\ ~d.finished
  THEN /\ data' = [d EXCEPT !.executionUrl = pollUrl(d.executionUrl)]
       /\ sendEvents(pre \o <<EvWebhookStep(pollUrl(d.executionUrl))>>)
       /\ fullUrl' = pollUrl(d.executionUrl)
       /\ gets' = gets + 1
       /\ pc' = "get"
       /\ UNCHANGED ended
  ELSE /\ data' = d
       /\ webhookCompleted(pre, d)

WebhookStart ==
  /\ pc = "start"
  /\ sendEvents(<<EvStart>>)
  /\ posts' = posts + 1
  /\ pc' = "post"
  /\ UNCHANGED <<route, response, data, pollCount, consecutiveErrors, workflowFailed,
                 pollState, waitTime, fullUrl, gets, ended, traced, served, fnArgs, fnRet,
                 connected, getsAfterClose, jobs, serverStatus>>
  /\ UNCHANGED <<stats, requests>>

\* axios.post rejects
WebhookPostFail ==
  /\ pc = "post"
  /\ webhookFailed(<<>>)
  /\ UNCHANGED <<route, response, data, pollCount, consecutiveErrors, workflowFailed,
                 pollState, waitTime, posts, traced, served, fnArgs, fnRet,
                 connected, getsAfterClose, jobs, serverStatus>>
  /\ UNCHANGED <<stats, requests>>

\* axios.post resolves with body b
WebhookPostReturn(b) ==
  /\ pc = "post"
  /\ response' = b
  /\ IF b.body = "null"
     THEN \* data.executionUrl of null throws into the handler's catch
          /\ webhookFailed(<<EvProgress(b)>>)
          /\ UNCHANGED data
     ELSE IF route = "/workflow" \/ b.executionUrl # NoUrl
     THEN \* pollWorkflow(data.executionUrl, sendEvent)
          webhookLoop(<<EvProgress(b)>>, Doc(FALSE, b.executionUrl, Undefined, <<>>))
     ELSE /\ webhookCompleted(<<EvProgress(b)>>, b)
          /\ UNCHANGED data
  /\ UNCHANGED <<route, pollCount, consecutiveErrors, workflowFailed, pollState, waitTime,
                 posts, traced, served, fnArgs, fnRet, connected, getsAfterClose, jobs,
                 serverStatus>>
  /\ UNCHANGED <<stats, requests>>

\* axios.get resolves with body b
WebhookGetReturn(b) ==
  /\ pc = "get"
  /\ Len(served) < MaxServed
  /\ served' = Append(served, b)
  /\ IF b.body = "null"
     THEN \* data.finished of null throws: error, break, return data
          /\ data' = b
          /\ webhookCompleted(<<EvWebhookUpdate(b), EvError>>, b)
     ELSE IF ~b.finished
     THEN \* await setTimeout(1000)
          /\ data' = b
          /\ sendEvents(<<EvWebhookUpdate(b)>>)
          /\ pc' = "wait"
          /\ UNCHANGED <<fullUrl, gets, ended>>
     ELSE webhookLoop(<<EvWebhookUpdate(b)>>, b)
  /\ UNCHANGED <<route, response, pollCount, consecutiveErrors, workflowFailed, pollState,
                 waitTime, posts, traced, fnArgs, fnRet, connected, getsAfterClose, jobs,
                 serverStatus>>
  /\ UNCHANGED <<stats, requests>>

\* axios.get rejects: error, break, return data
WebhookGetFail ==
  /\ pc = "get"
  /\ Len(served) < MaxServed
  /\ served' = Append(served, TransportError)
  /\ webhookCompleted(<<EvError>>, data)
  /\ UNCHANGED <<route, response, data, pollCount, consecutiveErrors, workflowFailed,
                 pollState, waitTime, posts, traced, fnArgs, fnRet, connected,
                 getsAfterClose, jobs, serverStatus>>
  /\ UNCHANGED <<stats, requests>>

\* the timer of the wait fires
WebhookWaitDone ==
  /\ pc = "wait"
  /\ webhookLoop(<<>>, data)
  /\ UNCHANGED <<route, response, pollCount, consecutiveErrors, workflowFailed, pollState,
                 waitTime, posts, traced, served, fnArgs, fnRet, connected, getsAfterClose,
                 jobs, serverStatus>>
  /\ UNCHANGED <<stats, requests>>

(***************************************************************************)
(* Connection statistics.  The logging middleware counts a request in and  *)
(* records its start time; its override of res.end counts it out and       *)
(* deletes the record.  The cleanup of zombies, run by a timer and by POST *)
(* /debug/cleanup, deletes the records older than a maximum age and counts *)
(* each of them out.  A request is "open" once received, "aged5" when more *)
(* than 5 minutes old, "aged10" when more than 10, "ended" after res.end.  *)
(***************************************************************************)
Requests == 1..MaxRequests
NoStats == [activeConnections |-> 0, connectionStartTimes |-> {}]
NoRequests == [r \in Requests |-> "none"]

\* the variables of the jobs, which the statistics do not touch
jobVars == <<route, pc, response, data, pollCount, consecutiveErrors, workflowFailed,
             pollState, waitTime, fullUrl, gets, posts, ended, out, sent, traced,
             served, stream, fnArgs, fnRet, connected, getsAfterClose, jobs, serverStatus>>

\* Math.max(0, stats.activeConnections - 1), once per deleted record
cleaned(n, k) == IF n - k > 0 THEN n - k ELSE 0

\* the middleware receives request r
RequestStart(r) ==
  /\ requests[r] = "none"
  /\ requests' = [requests EXCEPT ![r] = "open"]
  /\ stats' = [activeConnections |-> stats.activeConnections + 1,
               connectionStartTimes |-> stats.connectionStartTimes \cup {r}]
  /\ UNCHANGED jobVars

\* time passes for the open request r
RequestAges(r) ==
  /\ requests[r] \in {"open", "aged5"}
  /\ requests' = [requests EXCEPT ![r] = IF @ = "open" THEN "aged5" ELSE "aged10"]
  /\ UNCHANGED stats
  /\ UNCHANGED jobVars

\* res.end of request r
RequestEnd(r) ==
  /\ requests[r] \in {"open", "aged5", "aged10"}
  /\ requests' = [requests EXCEPT ![r] = "ended"]
  /\ stats' = [activeConnections |-> stats.activeConnections - 1,
               connectionStartTimes |-> stats.connectionStartTimes \ {r}]
  /\ UNCHANGED jobVars

\* the setInterval cleanup: records older than 10 minutes
TimerCleanup ==
  LET zombies == {r \in stats.connectionStartTimes : requests[r] = "aged10"} IN
    /\ zombies # {}
    /\ stats' = [activeConnections |-> cleaned(stats.activeConnections, Cardinality(zombies)),
                 connectionStartTimes |-> stats.connectionStartTimes \ zombies]
    /\ UNCHANGED requests
    /\ UNCHANGED jobVars

\* POST /debug/cleanup, itself a request counted in and out by the
\* middleware: records older than 5 minutes
DebugCleanup ==
  LET zombies == {r \in stats.connectionStartTimes : requests[r] \in {"aged5", "aged10"}} IN
    /\ zombies # {}
    /\ stats' = [activeConnections |->
                   cleaned(stats.activeConnections + 1, Cardinality(zombies)) - 1,
                 connectionStartTimes |-> stats.connectionStartTimes \ zombies]
    /\ UNCHANGED requests
    /\ UNCHANGED jobVars

(***************************************************************************)
(* Specifications                                                          *)
(***************************************************************************)
InitRequest ==
  /\ route \in Routes
  /\ pc = "start"
  /\ response = NoDoc
  /\ data = NoDoc
  /\ pollCount = 0
  /\ consecutiveErrors = 0
  /\ workflowFailed = FALSE
  /\ pollState = "none"
  /\ waitTime = 0
  /\ fullUrl = <<>>
  /\ gets = 0
  /\ posts = 0
  /\ ended = 0
  /\ out = <<>>
  /\ sent = [t \in Counted |-> 0]
  /\ served = <<>>
  /\ stream = <<>>
  /\ fnArgs = <<>>
  /\ fnRet = 0
  /\ connected = TRUE
  /\ getsAfterClose = 0
  /\ stats = NoStats
  /\ requests = NoRequests

Next ==
  \/ Start
  \/ PostFail
  \/ \E b \in TriggerBodies : PostReturn(b)
  \/ \E b \in StatusBodies : GetReturn(b, 200)
  \/ \E b \in ErrorStatusBodies, s \in Statuses \ {200} : GetReturn(b, s)
  \/ \E s \in Statuses \cup {0} : GetFail(s)
  \/ WaitDone

\* a traced job: followed from its request on, its stream kept; the remote
\* engine answers MaxServed status GETs and leaves the next one pending
InitTraced == InitRequest /\ traced = TRUE /\ jobs = NoJobs /\ serverStatus = 0

\* a job followed from its request on; the remote engine answers the status
\* GETs of the first MaxEarly attempts
InitEarly == InitRequest /\ traced = FALSE /\ jobs = NoJobs /\ serverStatus = 0

\* a job followed from the wait after its attempt number maxPolls - MaxLate,
\* the trigger and every status GET so far having returned an unfinished
\* document with a locator and no error marker
InitLate ==
  \E b \in TriggerDocs, p \in Payloads :
    LET n == maxPolls - MaxLate
        d == Doc(FALSE, Url1, p, <<>>)
    IN /\ b.executionUrl # NoUrl /\ ~b.finished
       /\ route \in Routes
       /\ pc = "wait"
       /\ response = b
       /\ data = d
       /\ pollCount = n
       /\ consecutiveErrors = 0
       /\ workflowFailed = FALSE
       /\ pollState = "running"
       /\ waitTime = getPollingInterval(n, FALSE)
       /\ fullUrl = pollUrl(d.executionUrl)
       /\ gets = n
       /\ posts = 1
       /\ ended = 0
       /\ out = <<EvUpdate(d, n, analyzeN8NResponse(d), FALSE, 200)>>
       /\ sent = [t \in Counted |-> 0]
       /\ traced = FALSE
       /\ served = <<>>
       /\ stream = <<>>
       /\ fnArgs = <<>>
       /\ fnRet = 0
       /\ connected = TRUE
       /\ getsAfterClose = 0
       /\ jobs = NoJobs
       /\ serverStatus = 200
       /\ stats = NoStats
       /\ requests = NoRequests

Init == InitTraced \/ InitEarly \/ InitLate
Spec == Init /\ [][Next]_vars

\* the same jobs, with clients that may go away
\* the same jobs, every HTTP call that the remote engine answers and every
\* timer being eventually completed
SpecLive == Init /\ [][Next]_vars /\ WF_vars(Next)

NextClose == Next \/ Disconnect
SpecClose == Init /\ [][NextClose]_vars

\* direct calls of getPollingInterval
CallGetPollingInterval ==
  /\ \E n \in 0..MaxN, e \in BOOLEAN :
       /\ fnArgs' = <<n, e>>
       /\ fnRet' = getPollingInterval(n, e)
  /\ UNCHANGED <<route, pc, response, data, pollCount, consecutiveErrors, workflowFailed,
                 pollState, waitTime, fullUrl, gets, posts, ended, out, sent, traced,
                 served, stream, connected, getsAfterClose, jobs, serverStatus>>
  /\ UNCHANGED <<stats, requests>>
NextInterval == CallGetPollingInterval
SpecInterval == InitTraced /\ [][NextInterval]_vars

\* the connection statistics under MaxRequests requests
NextStats ==
  \/ \E r \in Requests : RequestStart(r)
  \/ \E r \in Requests : RequestAges(r)
  \/ \E r \in Requests : RequestEnd(r)
  \/ TimerCleanup
  \/ DebugCleanup
SpecStats == InitTraced /\ [][NextStats]_vars

\* a job of webhook_server.js, followed from its request
InitWebhook ==
  /\ route \in WebhookRoutes
  /\ pc = "start"
  /\ response = NoDoc /\ data = NoDoc
  /\ pollCount = 0 /\ consecutiveErrors = 0 /\ workflowFailed = FALSE
  /\ pollState = "none" /\ waitTime = 0 /\ fullUrl = <<>>
  /\ gets = 0 /\ posts = 0 /\ ended = 0
  /\ out = <<>> /\ sent = [t \in Counted |-> 0]
  /\ traced = TRUE /\ served = <<>> /\ stream = <<>>
  /\ fnArgs = <<>> /\ fnRet = 0
  /\ connected = TRUE /\ getsAfterClose = 0
  /\ jobs = NoJobs /\ serverStatus = 0
  /\ stats = NoStats /\ requests = NoRequests
NextWebhook ==
  \/ WebhookStart
  \/ WebhookPostFail
  \/ \E b \in WebhookBodies : WebhookPostReturn(b)
  \/ \E b \in WebhookBodies : WebhookGetReturn(b)
  \/ WebhookGetFail
  \/ WebhookWaitDone
SpecWebhook == InitWebhook /\ [][NextWebhook]_vars

\* direct evaluations of the URL that pollWorkflow polls, for absolute and
\* relative locators, as their '/'-separated pieces
Segments == {"webhook-waiting", "42", "form"}
Paths == UNION {[1..k -> Segments] : k \in 1..MaxSegments}
AbsoluteLocators == {<<"https:", "", "n8n.srv903010.hstgr.cloud">> \o p : p \in Paths}
RelativeLocators == {<<"">> \o p : p \in Paths}
CallPollUrl ==
  /\ \E u \in AbsoluteLocators \cup RelativeLocators :
       /\ fnArgs' = <<u>>
       /\ fnRet' = pollUrl(u)
  /\ UNCHANGED <<route, pc, response, data, pollCount, consecutiveErrors, workflowFailed,
                 pollState, waitTime, fullUrl, gets, posts, ended, out, sent, traced,
                 served, stream, connected, getsAfterClose, jobs, serverStatus>>
  /\ UNCHANGED <<stats, requests>>
NextLocator == CallPollUrl
SpecLocator == InitTraced /\ [][NextLocator]_vars

\* direct calls of analyzeN8NResponse: on objects whose data and other
\* fields hold any of the texts below, in any order, on strings, on null and
\* on undefined
ClassifyTexts == {"Exit Code: 1", "EXIT CODE: 1", "Process finished with an error",
                  "request timed out", "Timeout"}
ClassifyRests == UNION {[1..k -> ClassifyTexts] : k \in 0..MaxRest}
ClassifyDocs ==
  {Doc(FALSE, NoUrl, d, r) : d \in ClassifyTexts \cup {Undefined}, r \in ClassifyRests}
ClassifyInputs ==
  ClassifyDocs \cup {NullBody, NoDoc, StringBody,
                     [body |-> "string", finished |-> FALSE, executionUrl |-> NoUrl,
                      data |-> Undefined, rest |-> <<"Exit Code: 1">>]}
CallAnalyzeN8NResponse ==
  /\ \E d \in ClassifyInputs :
       /\ fnArgs' = <<d>>
       /\ fnRet' = analyzeN8NResponse(d)
  /\ UNCHANGED <<route, pc, response, data, pollCount, consecutiveErrors, workflowFailed,
                 pollState, waitTime, fullUrl, gets, posts, ended, out, sent, traced,
                 served, stream, connected, getsAfterClose, jobs, serverStatus>>
  /\ UNCHANGED <<stats, requests>>
NextClassify == CallAnalyzeN8NResponse
SpecClassify == InitTraced /\ [][NextClassify]_vars

\* two jobs, each followed from its first status GET
InitPair ==
  /\ InitRequest /\ traced = FALSE /\ route = PairRoute
  /\ jobs = [state |-> <<called, called>>, asked |-> <<<<>>, <<>>>>]
  /\ serverStatus = 0
NextPair ==
  \/ \E j \in Jobs, x \in PairBodies : PairAnswer(j, x)
  \/ \E j \in Jobs : PairWaitDone(j)
SpecPair == InitPair /\ [][NextPair]_vars

(***************************************************************************)
(* Properties                                                              *)
(***************************************************************************)
Has(evs, t) == \E i \in 1..Len(evs) : evs[i].type = t
Ev(evs, t) == evs[CHOOSE i \in 1..Len(evs) : evs[i].type = t]
Last(evs) == evs[Len(evs)]

\* the segment just taken handled a status GET that resolved / that rejected
Fetched == pc = "get" /\ pc' # "get" /\ ~Has(out', "polling_error")
Failed == pc = "get" /\ pc' # "get" /\ Has(out', "polling_error")

\* C1: a status GET that resolves with a finished document is the last GET of
\* the run, and the run has exactly one workflow_completed event, flagged
\* with errors exactly when the sticky flag is set once that document is
\* classified.
C1_FinishedStops ==
  /\ [](data.finished =>
          /\ pc = "done"
          /\ sent["workflow_completed"] = 1
          /\ Has(out, "workflow_completed")
          /\ Ev(out, "workflow_completed").hadErrors = workflowFailed
          /\ Ev(out, "workflow_completed").finalStatus =
               (IF workflowFailed THEN "completed-with-errors" ELSE "completed-successfully")
          /\ Ev(out, "workflow_completed").finalData = data)
  /\ [](sent["workflow_completed"] > 0 => data.finished)
  /\ [][data.finished => gets' = gets]_vars

\* a finished document without marker was fetched after an earlier error
C1_Witness ==
  /\ data.finished /\ ~analyzeN8NResponse(data).isError /\ workflowFailed
  /\ Ev(out, "workflow_completed").finalStatus = "completed-with-errors"

\* C2: once 10 status fetches in a row have failed, no further GET is issued,
\* the run has exactly one too_many_errors event and polling_ended reports
\* network_failure.
C2_TenFailures ==
  /\ consecutiveErrors >= maxConsecutiveErrors => pc # "get"
  /\ (pc = "done" /\ consecutiveErrors >= maxConsecutiveErrors) =>
       /\ sent["too_many_errors"] = 1
       /\ Has(out, "polling_ended")
       /\ Ev(out, "polling_ended").finalStatus = "network_failure"

\* C3: every execution of pollWorkflow that has ended wrote exactly one
\* polling_ended event, and wrote it last.
C3_PollingEnded ==
  (pc = "done" /\ pollState # "none") =>
    /\ sent["polling_ended"] = 1
    /\ Len(out) >= 2
    /\ out[Len(out) - 1].type = "polling_ended"

\* C4: workflowFailed is false when pollWorkflow starts and, once true, true
\* in every later state of the run.
C4_StickyFlag ==
  /\ [](pollState = "none" => ~workflowFailed)
  /\ []((pc = "get" /\ pollCount = 1) => ~workflowFailed)
  /\ [][workflowFailed => workflowFailed']_vars

\* the flag is still set after a later document without marker and a
\* transport error
C4_Witness ==
  /\ workflowFailed /\ data.body = "object" /\ ~analyzeN8NResponse(data).isError
  /\ consecutiveErrors > 0 /\ pc = "wait"

\* the transport errors at the end of `served'
RECURSIVE TrailingErrors(_)
TrailingErrors(sv) ==
  IF sv = <<>> \/ Last(sv) # TransportError THEN 0
  ELSE 1 + TrailingErrors(SubSeq(sv, 1, Len(sv) - 1))

C6_DetectedOnce ==
  /\ [](sent["n8n_error_detected"] <= 1)
  /\ [][(Fetched /\ Has(out', "update") /\ Ev(out', "update").hasError) =>
          IF sent["n8n_error_detected"] = 0
          THEN Has(out', "n8n_error_detected") /\ ~Has(out', "error_persisting")
          ELSE Has(out', "error_persisting") /\ ~Has(out', "n8n_error_detected")]_vars
  /\ [][(pc' # pc /\ Has(out', "error_persisting")) => sent["n8n_error_detected"] = 1]_vars
  /\ [][(pc' # pc /\ Has(out', "n8n_error_detected")) =>
          Fetched /\ analyzeN8NResponse(data').isError]_vars

C6_Witness ==
  /\ sent["n8n_error_detected"] = 1 /\ Has(out, "error_persisting")
  /\ traced /\ stream = <<"start", "progress", "step", "n8n_error_detected", "update",
                          "step", "error_persisting", "update">>

\* C7: getPollingInterval(n, false) is 3000, 5000, 10000, 15000, 20000 ms on
\* n < 5, 5 <= n < 20, 20 <= n < 60, 60 <= n < 120, n >= 120, hence
\* non-decreasing in n; getPollingInterval(n, true) is 15000 ms.
C7_Interval ==
  fnArgs # <<>> =>
    LET n == fnArgs[1]
        hasError == fnArgs[2]
    IN /\ hasError => fnRet = 15000
       /\ ~hasError =>
            /\ n < 5 => fnRet = 3000
            /\ (5 <= n /\ n < 20) => fnRet = 5000
            /\ (20 <= n /\ n < 60) => fnRet = 10000
            /\ (60 <= n /\ n < 120) => fnRet = 15000
            /\ n >= 120 => fnRet = 20000
            /\ \A m \in 0..n : getPollingInterval(m, FALSE) <= fnRet

C7_Witness == fnArgs = <<120, FALSE>> /\ fnRet = 20000

\* the scenario of C8: the trigger returns an unfinished document with a
\* locator, the first status GET an unfinished document with a locator, the
\* second a finished one, neither with an error marker
Scenario8 ==
  /\ traced /\ pc = "done"
  /\ response.body = "object" /\ ~response.finished /\ response.executionUrl # NoUrl
  /\ Len(served) = 2
  /\ served[1].body = "object" /\ ~served[1].finished /\ served[1].executionUrl # NoUrl
  /\ ~analyzeN8NResponse(served[1]).isError
  /\ served[2].body = "object" /\ served[2].finished
  /\ ~analyzeN8NResponse(served[2]).isError

C9_NoLocator ==
  (response.body # "none" /\ response.executionUrl = NoUrl) =>
    /\ gets = 0 /\ pc = "done"
    /\ \A t \in {"step", "update", "workflow_completed", "polling_ended"} : ~Has(out, t)
    /\ traced => \A i \in 1..Len(stream) :
                   stream[i] \notin {"step", "update", "workflow_completed", "polling_ended"}
    /\ (traced /\ response.finished) => stream = <<"start", "progress", "completed">>

C9_Witness ==
  /\ traced /\ response.body = "object" /\ response.finished /\ response.executionUrl = NoUrl
  /\ stream = <<"start", "progress", "completed">>

\* the last StatusDocument obtained for the job: the last one fetched, or the
\* trigger response when none was
LastDocument ==
  IF pollState = "none" \/ data = Doc(FALSE, response.executionUrl, Undefined, <<>>)
  THEN response ELSE data

\* C10: the data of the result of a completed or completed_with_errors event
\* is the data of the last StatusDocument obtained for the job.
C10_DataRoundTrip ==
  (pc = "done" /\ Last(out).type \in {"completed", "completed_with_errors"}) =>
    Last(out).result.data = LastDocument.data


\* C11: once the client of the stream has gone, the engine issues at most a
\* bounded number of further status GETs (here MaxAfterClose): it does not
\* poll on until finished or a ceiling.
C11_StopsOnDisconnect == ~connected => getsAfterClose <= MaxAfterClose

\* C12: a trigger response with finished = true, with or without an
\* executionUrl, leads to no status GET: the handler writes progress and then
\* its single summary event.
C12_FinishedNotPolled ==
  (response.body = "object" /\ response.finished) =>
    /\ gets = 0
    /\ pc = "done"
    /\ Len(out) = 2 /\ out[1].type = "progress"
    /\ out[2].type \in {"completed", "completed_with_errors", "interrupted", "error"}

\* C13: when the trigger POST fails it is not retried: one POST, no status
\* GET, the stream is start then one error event, and the stream is closed.
C13_PostNotRetried ==
  /\ posts <= 1
  /\ (pc = "done" /\ response.body = "none") =>
       /\ posts = 1 /\ gets = 0 /\ ended = 1
       /\ out = <<EvError>> /\ sent["error"] = 1
       /\ \A t \in Counted \ {"error"} : sent[t] = 0
       /\ traced => stream = <<"start", "error">>

C13_Witness ==
  /\ traced /\ pc = "done" /\ response.body = "none"
  /\ stream = <<"start", "error">> /\ posts = 1 /\ ended = 1

\* the last segment handled a resolved status GET whose document is
\* classified as an error, is unfinished and carries an executionUrl
ErrorFetched ==
  /\ Has(out, "update") /\ Ev(out, "update").hasError
  /\ ~data.finished /\ data.executionUrl # NoUrl

\* C14: detecting a workflow error never ends polling: after a resolved GET
\* whose document is classified as an error, is unfinished and carries an
\* executionUrl, pollWorkflow waits and, below the attempt ceiling, starts
\* another cycle with a step event and a GET; n8n_error_detected carries
\* willContinue = true.
C14_ContinuesAfterError ==
  /\ [](Has(out, "n8n_error_detected") => Ev(out, "n8n_error_detected").willContinue)
  /\ [](ErrorFetched => pc = "wait" /\ workflowFailed)
  /\ [][(ErrorFetched /\ pollCount < maxPolls /\ pc' # pc) =>
          /\ pc' = "get"
          /\ gets' = gets + 1
          /\ pollCount' = pollCount + 1
          /\ Types(out') = <<"step">>]_vars

\* the cycle that follows the first detection
C14_Witness ==
  /\ traced /\ pc = "get" /\ workflowFailed
  /\ stream = <<"start", "progress", "step", "n8n_error_detected", "update", "step">>
  /\ Ev(out, "step").status = "post-error"

\* C16: a status GET that resolves with a malformed body (a string that is
\* not JSON, or null) is handled like a transport error: the counter of
\* consecutive failures is incremented, polling_error is written, the held
\* document is kept and the fetch is retried after the post-error wait.
C16_MalformedRetried ==
  [][(traced /\ Len(served') > Len(served) /\ Last(served').body \in {"string", "null"}) =>
       /\ consecutiveErrors' = consecutiveErrors + 1
       /\ Has(out', "polling_error")
       /\ data' = data
       /\ pc' = "wait" /\ waitTime' = errorWaitTime]_vars

\* C17: the attempt counter stays within 0..1000 and at most 1000 status
\* GETs are issued; when pollWorkflow returns with the counter at 1000 and
\* the last document unfinished, polling_ended and _meta report
\* max_polls_reached (MAX_ATTEMPTS).
C17_AttemptCeiling ==
  /\ pollCount \in 0..maxPolls
  /\ gets <= pollCount
  /\ (pc = "done" /\ pollState = "returned" /\ pollCount = maxPolls /\ ~data.finished) =>
       /\ Ev(out, "polling_ended").reason = "max_polls_reached"
       /\ Ev(out, "polling_ended").finalStatus = "max_attempts"
       /\ Ev(out, "polling_ended").totalPolls = maxPolls
       /\ Last(out).result.meta.reason = "max_polls_reached"

\* the loop left by its condition at attempt 1000, after 1000 status GETs
C17_Witness ==
  /\ pc = "done" /\ pollState = "returned" /\ pollCount = maxPolls /\ gets = maxPolls
  /\ ~data.finished /\ data.executionUrl # NoUrl /\ consecutiveErrors = 0
  /\ Ev(out, "polling_ended").reason = "max_polls_reached"

\* C18: whenever pollWorkflow wrote too_many_errors, or returned with the
\* counter of consecutive failures at 10 or more, polling_ended and _meta
\* report too_many_network_errors, also when the attempt counter is at 1000.
C18_FailureGuardFirst ==
  (/\ pc = "done" /\ pollState = "returned"
   /\ Has(out, "too_many_errors") \/ consecutiveErrors >= maxConsecutiveErrors) =>
    /\ Ev(out, "polling_ended").reason = "too_many_network_errors"
    /\ Ev(out, "polling_ended").finalStatus = "network_failure"
    /\ Last(out).result.meta.reason = "too_many_network_errors"

\* C19 as claimed: pollWorkflow returns only because the document is
\* finished or one of the two ceilings is reached.
C19_Claimed ==
  (pc = "done" /\ pollState = "returned") =>
    data.finished \/ consecutiveErrors >= maxConsecutiveErrors \/ pollCount >= maxPolls

\* C19: after every resolved GET whose document is unfinished pollWorkflow
\* waits the scheduled interval; it then starts another cycle if the document
\* carries an executionUrl and the attempt counter is below the ceiling, and
\* returns as interrupted if the document carries none.  It returns only
\* because the document is finished, a ceiling is reached or the document has
\* no executionUrl; it rejects only on a body null.
C19_LoopExits ==
  /\ [][(pc = "get" /\ pc' # pc /\ Has(out', "update") /\ ~data'.finished) =>
          /\ pc' = "wait"
          /\ waitTime' = getPollingInterval(pollCount, Ev(out', "update").hasError)]_vars
  /\ [][(pc = "wait" /\ pc' # pc /\ Has(out, "update")) =>
          IF data.executionUrl # NoUrl /\ pollCount < maxPolls
          THEN pc' = "get" /\ gets' = gets + 1
          ELSE /\ pc' = "done" /\ pollState' = "returned" /\ gets' = gets
               /\ Ev(out', "polling_ended").reason =
                    (IF pollCount >= maxPolls THEN "max_polls_reached" ELSE "interrupted")]_vars
  /\ []((pc = "done" /\ pollState = "returned") =>
          \/ data.finished
          \/ consecutiveErrors >= maxConsecutiveErrors
          \/ pollCount >= maxPolls
          \/ data.executionUrl = NoUrl)
  /\ []((pc = "done" /\ pollState = "threw") => data.body = "null")

\* a fetched unfinished document without executionUrl has ended the loop
C19_Witness ==
  /\ pc = "done" /\ pollState = "returned"
  /\ data.body = "object" /\ ~data.finished /\ data.executionUrl = NoUrl
  /\ consecutiveErrors = 0 /\ pollCount < maxPolls
  /\ Ev(out, "polling_ended").reason = "interrupted"

\* C20: the attempt counter never decreases and increases by exactly 1 at
\* the entry of every cycle, before the guard and before the fetch: the
\* too_many_errors and step events carry the incremented value, and the
\* outcome of the fetch leaves it alone.
C20_AttemptCounter ==
  /\ [][pollCount' = pollCount \/ pollCount' = pollCount + 1]_vars
  /\ [][gets' # gets =>
          /\ gets' = gets + 1 /\ pollCount' = pollCount + 1
          /\ Ev(out', "step").pollCount = pollCount']_vars
  /\ [][Has(out', "too_many_errors") =>
          /\ gets' = gets /\ pollCount' = pollCount + 1
          /\ Ev(out', "too_many_errors").pollCount = pollCount']_vars
  /\ [][pollCount' # pollCount => gets' # gets \/ Has(out', "too_many_errors")]_vars
  /\ [][pc = "get" => pollCount' = pollCount]_vars
  /\ [](pollCount = gets + (IF sent["too_many_errors"] > 0 THEN 1 ELSE 0))

\* ten cycles whose fetch failed and an eleventh stopped by the guard
C20_Witness ==
  /\ pc = "done" /\ Has(out, "too_many_errors")
  /\ Ev(out, "too_many_errors").pollCount = 11 /\ pollCount = 11 /\ gets = 10

\* a job run alone on the answers a: its call of pollWorkflow right after the
\* last answer, every earlier wait being over
wake(st) == IF st.pc = "wait" THEN enter(st) ELSE st
RECURSIVE Alone(_)
Alone(a) ==
  IF a = <<>> THEN called
  ELSE answer(wake(Alone(SubSeq(a, 1, Len(a) - 1))), a[Len(a)])

\* C15: under every interleaving of the segments of two jobs, the attempt
\* counter, the counter of consecutive failures, the sticky flag and the
\* event sequence of each job are those of the job run alone on the same
\* answers; and while a job is suspended in a wait or a fetch, the other can
\* take its next step.
C15_NoInterference ==
  \A j \in Jobs :
    LET st == jobs.state[j]
        ref == Alone(jobs.asked[j])
    IN /\ st \in {ref, wake(ref)}
       /\ \A k \in Jobs \ {j} :
            st.pc \in {"get", "wait"} =>
              /\ jobs.state[k].pc = "wait" => ENABLED PairWaitDone(k)
              /\ (jobs.state[k].pc = "get" /\ Len(jobs.asked[k]) < MaxPairServed) =>
                   ENABLED (\E x \in PairBodies : PairAnswer(k, x))

\* job 2 ran two cycles to its end while job 1 stayed in the wait that
\* followed its first document, an error document
C15_Witness ==
  /\ jobs.state[1].pc = "wait" /\ jobs.state[1].workflowFailed
  /\ jobs.state[1].pollCount = 1 /\ Len(jobs.asked[1]) = 1
  /\ jobs.state[2].pc = "done" /\ ~jobs.state[2].workflowFailed
  /\ jobs.state[2].pollCount = 2 /\ jobs.state[2].consecutiveErrors = 0
  /\ jobs.state[2].stream = <<"start", "progress", "step", "polling_error", "step", "update",
                              "workflow_completed", "polling_ended", "completed">>

\* C21: each transport error writes exactly one polling_error event, which
\* carries the incremented counter of consecutive failures, and is followed
\* by a wait of 15 s; willRetry is true exactly when another status GET is
\* issued afterwards.
C21_PollingError ==
  /\ [][Failed =>
          /\ Types(out') = <<"polling_error">>
          /\ out'[1].consecutiveErrors = consecutiveErrors + 1
          /\ pc' = "wait" /\ waitTime' = errorWaitTime]_vars
  /\ [][(pc = "wait" /\ pc' # pc /\ Has(out, "polling_error")) =>
          (Ev(out, "polling_error").willRetry <=> gets' = gets + 1)]_vars

\* C22: a transport error on a status GET changes the counter of consecutive
\* failures and nothing else of pollWorkflow: the held document, the sticky
\* flag and the attempt counter are kept, and the next cycle fetches the same
\* locator.
C22_FailedCycleFrame ==
  /\ [][Failed =>
          /\ consecutiveErrors' = consecutiveErrors + 1
          /\ data' = data /\ workflowFailed' = workflowFailed
          /\ pollCount' = pollCount /\ fullUrl' = fullUrl /\ gets' = gets]_vars
  /\ [][(pc = "wait" /\ pc' = "get" /\ Has(out, "polling_error")) =>
          /\ data' = data /\ workflowFailed' = workflowFailed
          /\ consecutiveErrors' = consecutiveErrors
          /\ pollCount' = pollCount + 1
          /\ fullUrl' = fullUrl /\ fullUrl' = pollUrl(data.executionUrl)]_vars

\* the cycle after a failed one, the job holding an error document
C22_Witness ==
  /\ traced /\ Len(served) = 2 /\ served[2] = TransportError
  /\ pc = "get" /\ pollCount = 3 /\ consecutiveErrors = 1
  /\ data = served[1] /\ workflowFailed /\ fullUrl = pollUrl(data.executionUrl)

\* C23: every cycle whose status GET resolves writes exactly one update
\* event, whose workflowStatus is error-but-continuing when the sticky flag
\* is set, else completed when the document is finished, else running; a
\* cycle whose GET rejects writes none.
C23_UpdateEveryCycle ==
  /\ [][Fetched =>
          /\ Count(out', "update") = 1
          /\ Ev(out', "update").workflowStatus =
               (IF workflowFailed' THEN "error-but-continuing"
                ELSE IF data'.finished THEN "completed" ELSE "running")]_vars
  /\ [][Failed => ~Has(out', "update")]_vars

\* C24: what pollWorkflow returns is the last document with _meta, where
\* success is the document's finished, failed the sticky flag and totalPolls
\* the attempt counter; the reason, the same in polling_ended and in _meta,
\* is completed iff finished without flag, completed_with_errors iff
\* finished with flag, and otherwise one of max_polls_reached,
\* too_many_network_errors, interrupted.
C24_ReturnValue ==
  (pc = "done" /\ pollState = "returned") =>
    LET r == Last(out).result
        pe == Ev(out, "polling_ended")
    IN /\ r.finished = data.finished /\ r.executionUrl = data.executionUrl
       /\ r.data = data.data /\ r.rest = data.rest
       /\ r.meta.present
       /\ r.meta.success = data.finished
       /\ r.meta.failed = workflowFailed
       /\ r.meta.totalPolls = pollCount /\ pe.totalPolls = pollCount
       /\ r.meta.reason = pe.reason
       /\ pe.reason = "completed" <=> (data.finished /\ ~workflowFailed)
       /\ pe.reason = "completed_with_errors" <=> (data.finished /\ workflowFailed)
       /\ ~data.finished =>
            pe.reason \in {"max_polls_reached", "too_many_network_errors", "interrupted"}

\* a run that finished after a workflow error
C24_Witness ==
  /\ pc = "done" /\ pollState = "returned" /\ data.finished /\ workflowFailed
  /\ Last(out).result.meta.success /\ Last(out).result.meta.failed
  /\ Last(out).result.meta.reason = "completed_with_errors"

\* the markers that occur in the texts of a document, whatever their case
Markers(d) ==
  UNION {Inside(toLowerCase(t)) : t \in {d.data} \cup {d.rest[i] : i \in 1..Len(d.rest)}}

\* the classification by precedence: exit code, then process error, then timeout
ByPrecedence(m) ==
  IF "exit code: 1" \in m
    THEN [isError |-> TRUE, errorType |-> "workflow_error", severity |-> "critical"]
  ELSE IF "process finished with an error" \in m
    THEN [isError |-> TRUE, errorType |-> "process_error", severity |-> "critical"]
  ELSE IF m \cap {"timeout", "timed out"} # {}
    THEN [isError |-> TRUE, errorType |-> "n8n_timeout", severity |-> "warning"]
  ELSE [isError |-> FALSE, errorType |-> "null", severity |-> "null"]

\* C25: the classification of a document depends only on which markers occur
\* in it, in whatever case, field and order: workflow_error/critical with the
\* exit-code marker, else process_error/critical with the process marker,
\* else a timeout kind/warning with a timeout marker, else no error.
C25_MarkersOnly ==
  (fnArgs # <<>> /\ fnArgs[1].body = "object") =>
    /\ fnRet = ByPrecedence(Markers(fnArgs[1]))
    /\ \A d \in ClassifyDocs :
         Markers(d) = Markers(fnArgs[1]) => analyzeN8NResponse(d) = fnRet

\* a timeout marker placed before an exit-code marker in upper case
C25_Witness ==
  /\ fnArgs # <<>> /\ fnArgs[1].body = "object"
  /\ fnArgs[1].rest = <<"Timeout", "EXIT CODE: 1">>
  /\ fnRet.errorType = "workflow_error" /\ fnRet.severity = "critical"

\* C26: analyzeN8NResponse returns a classification for every input and
\* changes nothing: null, undefined and a string, even one that holds a
\* marker, are classified as no error, as is an object without the usual
\* fields; equal inputs get equal classifications.
C26_TotalAndPure ==
  /\ [](fnArgs # <<>> =>
         /\ fnRet.isError \in BOOLEAN
         /\ fnRet.errorType \in {"null", "workflow_error", "process_error", "n8n_timeout"}
         /\ fnRet.severity \in {"null", "critical", "warning"}
         /\ fnArgs[1].body # "object" => fnRet = NoError
         /\ fnArgs[1] = Doc(FALSE, NoUrl, Undefined, <<>>) => fnRet = NoError)
  /\ [][fnArgs' # <<>> =>
          /\ fnArgs' = fnArgs => fnRet' = fnRet
          /\ UNCHANGED <<route, pc, response, data, pollCount, consecutiveErrors,
                         workflowFailed, pollState, waitTime, fullUrl, gets, posts,
                         ended, out, sent, served, stream, connected, jobs,
                         serverStatus>>]_vars

\* a string that holds the exit-code marker is classified as no error
C26_Witness ==
  /\ fnArgs # <<>> /\ fnArgs[1].body = "string"
  /\ fnArgs[1].rest = <<"Exit Code: 1">>
  /\ fnRet = NoError

\* the types of the events of a successful fetch of document d, the sticky
\* flag being wf before it, in the order of the loop body
CycleTypes(d, wf) ==
  (IF ~analyzeN8NResponse(d).isError THEN <<>>
   ELSE IF ~wf THEN <<"n8n_error_detected">> ELSE <<"error_persisting">>)
  \o <<"update">>
  \o (IF d.finished THEN <<"workflow_completed">> ELSE <<>>)

\* C27: the events of one cycle are written in the order of the loop body.
\* The step event is the last one written before the GET is issued.  When
\* the GET returns a document, at most one of n8n_error_detected and
\* error_persisting comes first, then update, then workflow_completed if the
\* document is finished, and what follows is the exit of the loop; when the
\* GET returns null the cycle writes nothing after its step, and the handler
\* writes its error event.  When the GET fails the cycle writes polling_error
\* and nothing else.
C27_CycleOrder ==
  /\ [][gets' = gets + 1 =>
          /\ pc' = "get" /\ Last(out').type = "step" /\ Count(out', "step") = 1
          /\ Last(out').pollCount = pollCount']_vars
  /\ [][(Fetched /\ data'.body # "null") =>
          LET ts == CycleTypes(data', workflowFailed) IN
            /\ Len(out') >= Len(ts)
            /\ SubSeq(Types(out'), 1, Len(ts)) = ts
            /\ \A i \in 1..Len(ts) : ts[i] = "workflow_completed" \/ out'[i].pollCount = pollCount
            /\ IF data'.finished
               THEN /\ pc' = "done" /\ Len(out') = Len(ts) + 2
                    /\ out'[Len(ts) + 1].type = "polling_ended"
               ELSE /\ pc' = "wait" /\ Len(out') = Len(ts)]_vars
  /\ [][(Fetched /\ data'.body = "null") => Types(out') = <<"error">>]_vars
  /\ [][Failed => Types(out') = <<"polling_error">> /\ pc' = "wait"]_vars

\* a first error, then a persisting one in a finished document
C27_Witness ==
  /\ traced /\ pc = "done" /\ Len(stream) = 11
  /\ SubSeq(stream, 3, 10) = <<"step", "n8n_error_detected", "update", "step",
                               "error_persisting", "update", "workflow_completed",
                               "polling_ended">>

\* a status GET is settled with a response of a status below 600
Delivered == pc = "get" /\ pc' # "get" /\ serverStatus' \in 1..599

\* C28: a status GET answered with an HTTP status below 600, 4xx and 5xx
\* included, is a delivered response: the consecutive-failure counter is 0
\* after it, its body is the held document, the cycle writes an update event
\* and no polling_error event.
C28_DeliveredBelow600 ==
  [][Delivered =>
       /\ consecutiveErrors' = 0
       /\ traced => data' = Last(served')
       /\ Has(out', "update") /\ Ev(out', "update").serverStatus = serverStatus'
       /\ ~Has(out', "polling_error")]_vars

\* C29: after a status GET that returns an unfinished document in the cycle
\* of attempt k, the wait before the next cycle is getPollingInterval(k, e),
\* e being the classification of the document of this cycle and not the
\* sticky flag, and the nextPollIn of the update event of the cycle is that
\* wait, in seconds.
C29_WaitOfCycle ==
  [][(Fetched /\ data'.body # "null" /\ ~data'.finished) =>
       /\ pc' = "wait" /\ pollCount' = pollCount
       /\ waitTime' = getPollingInterval(pollCount, analyzeN8NResponse(data').isError)
       /\ Ev(out', "update").nextPollIn * 1000 = waitTime']_vars

\* a clean document after an earlier error: the normal schedule
C29_Witness ==
  /\ pc = "wait" /\ workflowFailed /\ data.body = "object" /\ ~data.finished
  /\ ~analyzeN8NResponse(data).isError
  /\ Has(out, "update") /\ Ev(out, "update").nextPollIn = 3 /\ waitTime = 3000

\* C30: for every attempt count, the interval returned with hasError true is
\* at least the interval returned with hasError false.
C30_ElevatedOnError ==
  fnArgs # <<>> =>
    getPollingInterval(fnArgs[1], TRUE) >= getPollingInterval(fnArgs[1], FALSE)

\* the path segments of a locator: what follows the host of an absolute
\* locator, what follows the leading '/' of a relative one
LocatorPath(u) == IF u[1] = "" THEN Tail(u) ELSE SubSeq(u, 4, Len(u))

\* C31: for an absolute and for a relative locator, the status GET targets
\* the base URL of the remote engine followed by the full path of the
\* locator.
C31_FullPath ==
  fnArgs # <<>> => fnRet = N8N_WEBHOOK_URL \o LocatorPath(fnArgs[1])

\* C32: when pollWorkflow returns, the totalPolls of polling_ended and of
\* _meta is the number of status GETs the run has issued, also when the run
\* ends with too_many_errors.
C32_TotalPollsAreGets ==
  (pc = "done" /\ pollState = "returned") =>
    /\ Ev(out, "polling_ended").totalPolls = gets
    /\ Last(out).result.meta.totalPolls = gets

\* the markers in the documents a traced job was served
Seen == UNION {Markers(served[i]) : i \in {k \in 1..Len(served) : served[k].body = "object"}}

\* C33: every document classified as an error sets the sticky flag, whatever
\* the severity.  A run that saw a timeout marker and no other marker and
\* fetched a finished document returns with the reason
\* completed_with_errors and _meta.failed true, and the handler of
\* /webhook/enrichir/contacte writes completed_with_errors, not completed.
C33_WarningSetsFlag ==
  /\ [][(Fetched /\ data'.body = "object" /\ Markers(data') # {}) =>
          workflowFailed']_vars
  /\ []((/\ traced /\ pc = "done" /\ pollState = "returned" /\ data.finished
         /\ Seen # {} /\ Seen \subseteq {"timeout", "timed out"}) =>
          /\ workflowFailed
          /\ Ev(out, "polling_ended").reason = "completed_with_errors"
          /\ Last(out).result.meta.failed
          /\ Last(out).result.meta.reason = "completed_with_errors"
          /\ route = "/webhook/enrichir/contacte" =>
               Last(out).type = "completed_with_errors" /\ ~Has(out, "completed"))

\* a timeout marker in an unfinished document, then a clean finished one
C33_Witness ==
  /\ traced /\ pc = "done" /\ pollState = "returned" /\ Len(served) = 2
  /\ route = "/webhook/enrichir/contacte"
  /\ served[1].body = "object" /\ served[1].rest = <<"request timed out">>
  /\ served[2] = data /\ data.finished /\ Markers(data) = {}
  /\ Last(out).type = "completed_with_errors"

\* C34: on the route /webhook/generer/messages a completed event is written
\* only if the last document of the job is finished; a polling run that
\* ended by the failure ceiling, by the attempt ceiling or as interrupted is
\* not followed by a completed event.
C34_CompletedOnlyIfFinished ==
  (route = "/webhook/generer/messages" /\ pc = "done" /\ Has(out, "completed")) =>
    /\ Last(out).result.finished
    /\ Has(out, "polling_ended") =>
         Ev(out, "polling_ended").reason \in {"completed", "completed_with_errors"}

\* the handler of /webhook/enrichir/contacte has reached its final event:
\* pollWorkflow has returned, or the trigger response had no locator
Concluded ==
  /\ route = "/webhook/enrichir/contacte" /\ pc = "done"
  /\ pollState = "returned" \/ (pollState = "none" /\ response.body = "object")

\* the document the handler holds then
FinalDocument == IF pollState = "returned" THEN data ELSE response

FinalTypes == {"completed", "completed_with_errors", "interrupted"}

\* C35: the first handler of /webhook/enrichir/contacte, after pollWorkflow
\* has returned or when no polling was needed, writes exactly one of
\* completed, completed_with_errors and interrupted: completed iff the final
\* document is finished and no workflow error was detected,
\* completed_with_errors iff it is finished and one was detected,
\* interrupted otherwise; it is the last event, and the stream is closed
\* once.
C35_FinalEvent ==
  Concluded =>
    /\ sent["completed"] + sent["completed_with_errors"] + sent["interrupted"] = 1
    /\ Cardinality({i \in 1..Len(out) : out[i].type \in FinalTypes}) = 1
    /\ Last(out).type \in FinalTypes
    /\ Last(out).type = "completed" <=> (FinalDocument.finished /\ ~workflowFailed)
    /\ Last(out).type = "completed_with_errors" <=> (FinalDocument.finished /\ workflowFailed)
    /\ Last(out).type = "interrupted" <=> ~FinalDocument.finished
    /\ Last(out).result.finished = FinalDocument.finished
    /\ sent["error"] = 0 /\ ended = 1

\* ten failed GETs in a row: interrupted
C35_Witness ==
  /\ Concluded /\ pollState = "returned"
  /\ Has(out, "too_many_errors")
  /\ Ev(out, "polling_ended").reason = "too_many_network_errors"
  /\ Last(out).type = "interrupted"

\* C36: in webhook_server.js no completed event is written to a stream after
\* an error event.
C36_NoCompletedAfterError ==
  \A i \in 1..Len(stream), j \in 1..Len(stream) :
    (i < j /\ stream[i] = "error") => stream[j] # "completed"

\* C37: in webhook_server.js GET /workflow, when the trigger response has no
\* executionUrl, no status GET is issued and the result of the completed
\* event is the trigger response.
C37_TriggerKept ==
  (/\ route = "/workflow" /\ pc = "done"
   /\ response.body = "object" /\ response.executionUrl = NoUrl) =>
    /\ gets = 0
    /\ Has(out, "completed") /\ Ev(out, "completed").result = response

\* a status GET that the remote engine leaves without answer
Pending == pc = "get" /\ ~Answers

LastTypes == {"completed", "completed_with_errors", "interrupted", "error"}

C39_ActiveConnections ==
  /\ stats.activeConnections >= 0
  /\ stats.activeConnections = Cardinality(stats.connectionStartTimes)

=============================================================================
